---- MODULE Spec2Model ----
(***************************************************************************)
(* Model of flappy_bird.py: the ReplayBuffer, the DQN value network, the  *)
(* DQNAgent and the offline training loop.                                 *)
(*                                                                         *)
(* Numbers.  Python floats are modelled in fixed point:                    *)
(*   - epsilon and the draws of random.random() in millionths              *)
(*     (1.0 = EpsilonOne), products truncated;                             *)
(*   - rewards and Q-values in hundredths, gamma = GammaNum / GammaDen.    *)
(* All modelled values are finite (no NaN, no infinity).                   *)
(*                                                                         *)
(* Networks.  A DQN is fc2(relu(fc1(x))).  The feature count (12 in the    *)
(* code) and the hidden width (64) are scaled down to InputDim and         *)
(* HiddenDim; weights range over NumParamSettings integer settings.  The   *)
(* random initialisation and the result of an Adam step are choices among  *)
(* these settings.  Parameter storage is a heap of cells, so that copying  *)
(* values and sharing storage are different things.                        *)
(***************************************************************************)
EXTENDS Integers, Sequences, FiniteSets, TLC

VARIABLES
    capacity,            \* ReplayBuffer: deque maxlen
    memory,              \* ReplayBuffer.buffer, oldest first
    heap,                \* parameter storage: cell -> parameter setting
    policy_net,          \* agent.policy_net: the cell holding its parameters
    target_net,          \* agent.target_net
    optimizer,           \* agent.optimizer: [params: cell, step: Nat]
    epsilon,             \* agent.epsilon, in millionths
    batch,               \* train(): the batch last sampled
    sample_idx,          \* random.sample: the positions last drawn
    expected_q_values,   \* train(): the targets last computed
    sel_state,           \* select_action(): its last argument
    draw,                \* select_action(): its last random.random() value
    predicted_action,    \* the last value select_action returned
    pushed,              \* history of a stand-alone buffer: every transition pushed
    snapshot,            \* history: policy parameters at construction / last sync
    last_call,           \* history: the operation that ran last
    target_syncs,        \* history: number of update_target_network calls
    requested,           \* history: the size last asked of sample
    violation,           \* history: sample was asked for more than is stored
    pc,                  \* training loop: position
    episode,             \* training loop: outer index
    i                    \* training loop: inner index

agentVars  == <<capacity, memory, heap, policy_net, target_net, optimizer, epsilon>>
localVars  == <<batch, sample_idx, expected_q_values, sel_state, draw, predicted_action>>
ghostVars  == <<pushed, snapshot, last_call, target_syncs, requested, violation>>
driverVars == <<pc, episode, i>>
vars == <<agentVars, localVars, ghostVars, driverVars>>

---------------------------------------------------------------------------
(* Bounds of the model *)

NumRecords == 34         \* len(train_states)
InputDim == 2            \* len(features), scaled down
HiddenDim == 2           \* hidden width, scaled down
NumParamSettings == 2    \* parameter settings a network can hold
MaxCapacity == 3         \* capacities tried for a stand-alone buffer
MaxBufferPushes == 4     \* pushes into a stand-alone buffer
MaxBufferInputs == 2     \* distinct records pushed into a stand-alone buffer
MaxTrainSteps == 2       \* optimizer steps of a free-running agent
MaxDecays == 1           \* epsilon decays of a free-running agent
MaxOffsets == 2          \* batches tried per train() call
MaxSyncs == 1            \* target syncs of a free-running agent
MaxSelectInputs == 1     \* dataset rows a free-running agent is asked about
MaxExtraPushes == 1      \* pushes of a free-running agent beyond batch_size

(* Program constants *)

OutputDim == 2
BufferCapacity == 10000
batch_size == 32
GammaNum == 99
GammaDen == 100
EpsilonOne == 1000000
epsilon_min == 10000
EpsilonDecayNum == 995
EpsilonDecayDen == 1000
num_episodes == 10
TargetInterval == 10

Max(a, b) == IF a >= b THEN a ELSE b
Min(a, b) == IF a <= b THEN a ELSE b

---------------------------------------------------------------------------
(* The dataset: normalised feature vectors, recorded actions and rewards.  *)
(* Row r is 0-based, as in the code.                                       *)

train_states(r) == [d \in 1..InputDim |-> ((r * d + r \div 3) % 3) - 1]
train_actions(r) == (r \div 2) % 2
train_rewards(r) == 100 * ((r % 3) - 1)

(* The transition the loop builds from row r. *)
Transition(r) ==
    [state      |-> train_states(r),
     action     |-> train_actions(r),
     reward     |-> train_rewards(r),
     next_state |-> train_states(r + 1),
     done       |-> (r = NumRecords - 2)]

---------------------------------------------------------------------------
(* DQN *)

Cells == {1, 2}

ParamSetting(k) ==
    [w1 |-> [h \in 1..HiddenDim |-> [d \in 1..InputDim |-> ((k * h + d) % 3) - 1]],
     b1 |-> [h \in 1..HiddenDim |-> (k + h) % 2],
     w2 |-> [a \in 1..OutputDim |->
                [h \in 1..HiddenDim |-> 50 * k * (((a + h) % 3) - 1)]],
     b2 |-> [a \in 1..OutputDim |-> 50 * k * (a - 1)]]

ParamSettings == {ParamSetting(k) : k \in 0..(NumParamSettings - 1)}

RECURSIVE Dot(_, _, _)
Dot(w, x, n) == IF n = 0 THEN 0 ELSE w[n] * x[n] + Dot(w, x, n - 1)

relu(x) == Max(0, x)

(* DQN.forward: the Q-value of each action, indexed 1..OutputDim. *)
forward(p, x) ==
    LET hidden == [h \in 1..HiddenDim |-> relu(Dot(p.w1[h], x, InputDim) + p.b1[h])]
    IN  [a \in 1..OutputDim |-> Dot(p.w2[a], hidden, HiddenDim) + p.b2[a]]

(* tensor.max(): the largest entry. *)
RECURSIVE MaxUpTo(_, _)
MaxUpTo(q, n) == IF n = 1 THEN q[1] ELSE Max(q[n], MaxUpTo(q, n - 1))
max(q) == MaxUpTo(q, OutputDim)

(* tensor.argmax(): the 0-based index of the first largest entry. *)
RECURSIVE FirstAt(_, _, _)
FirstAt(q, m, n) == IF q[n] = m THEN n ELSE FirstAt(q, m, n + 1)
argmax(q) == FirstAt(q, max(q), 1) - 1

---------------------------------------------------------------------------
(* ReplayBuffer *)

(* Mutation: a full deque drops its newest entry. *)
deque_append_drop_newest(buf, cap, t) ==
    IF cap = 0 THEN buf
    ELSE IF Len(buf) >= cap THEN Append(SubSeq(buf, 1, Len(buf) - 1), t)
    ELSE Append(buf, t)

(* deque.append under maxlen: a full deque drops its oldest entry. *)
deque_append(buf, cap, t) ==
    IF cap = 0 THEN buf
    ELSE IF Len(buf) >= cap THEN Append(Tail(buf), t)
    ELSE Append(buf, t)

(* ReplayBuffer.push *)
push(t) ==
    /\ memory' = deque_append(memory, capacity, t)
    /\ last_call' = "push"
    /\ UNCHANGED <<capacity, heap, policy_net, target_net, optimizer, epsilon>>
    /\ UNCHANGED localVars
    /\ UNCHANGED <<snapshot, target_syncs, requested, violation>>

(* random.sample: n positions of the population, no position twice. *)
Injective(s) == \A a, b \in DOMAIN s : a # b => s[a] # s[b]

(* Mutation: positions drawn with replacement. *)
SamplePositionsWithReplacement(len, n) == [1..n -> 1..len]

SamplePositions(len, n) == {s \in [1..n -> 1..len] : Injective(s)}

(* ReplayBuffer.sample as a stand-alone call. *)
sample(n) ==
    /\ n <= Len(memory)
    /\ \E idx \in SamplePositions(Len(memory), n) :
          /\ sample_idx' = idx
          /\ batch' = [k \in 1..n |-> memory[idx[k]]]
    /\ requested' = n
    /\ last_call' = "sample"
    /\ UNCHANGED agentVars
    /\ UNCHANGED <<expected_q_values, sel_state, draw, predicted_action>>
    /\ UNCHANGED <<pushed, snapshot, target_syncs, violation>>

---------------------------------------------------------------------------
(* A stand-alone ReplayBuffer of any small capacity. *)

NoAction == -1

LocalsInit ==
    /\ batch = <<>>
    /\ sample_idx = <<>>
    /\ expected_q_values = <<>>
    /\ sel_state = <<>>
    /\ draw = 0
    /\ predicted_action = NoAction

DriverIdle ==
    /\ pc = "idle"
    /\ episode = 0
    /\ i = 0

InitBuffer ==
    /\ capacity \in 1..MaxCapacity
    /\ memory = <<>>
    /\ heap = [c \in Cells |-> ParamSetting(0)]
    /\ policy_net = 1
    /\ target_net = 2
    /\ optimizer = [params |-> 1, step |-> 0]
    /\ epsilon = EpsilonOne
    /\ LocalsInit
    /\ pushed = <<>>
    /\ snapshot = ParamSetting(0)
    /\ last_call = "init"
    /\ target_syncs = 0
    /\ requested = 0
    /\ violation = FALSE
    /\ DriverIdle

BufferPush ==
    /\ Len(pushed) < MaxBufferPushes
    /\ \E r \in 0..(MaxBufferInputs - 1) :
          /\ push(Transition(r))
          /\ pushed' = Append(pushed, Transition(r))
    /\ UNCHANGED driverVars

BufferSample ==
    /\ \E n \in 0..Len(memory) : sample(n)
    /\ UNCHANGED driverVars

NextBuffer == BufferPush \/ BufferSample

SpecBuffer == InitBuffer /\ [][NextBuffer]_vars

---------------------------------------------------------------------------
(* DQNAgent *)

(* DQNAgent.__init__: the policy network is initialised at random, the     *)
(* target network gets its own storage and a copy of the policy's values.  *)
AgentConstructed ==
    /\ capacity = BufferCapacity
    /\ memory = <<>>
    /\ policy_net = 1
    /\ target_net = 2
    /\ \E p \in ParamSettings : heap = [c \in Cells |-> p]
    /\ optimizer = [params |-> policy_net, step |-> 0]
    /\ epsilon = EpsilonOne
    /\ LocalsInit
    /\ pushed = <<>>
    /\ snapshot = heap[policy_net]
    /\ last_call = "init"
    /\ target_syncs = 0
    /\ requested = 0
    /\ violation = FALSE

(* random.random(): values of [0, 1), in millionths. *)
RandomDraws == {0, EpsilonOne - 1}

(* Mutation: the comparison admits equality. *)
ExploresInclusive(r, eps) == r <= eps

(* random.random() < self.epsilon *)
Explores(r, eps) == r < eps

(* DQNAgent.select_action *)
select_action(state) ==
    /\ \E r \in RandomDraws :
          /\ draw' = r
          /\ IF Explores(r, epsilon)
             THEN predicted_action' \in 0..1
             ELSE predicted_action' = argmax(forward(heap[policy_net], state))
    /\ sel_state' = state
    /\ last_call' = "select_action"
    /\ UNCHANGED agentVars
    /\ UNCHANGED <<batch, sample_idx, expected_q_values>>
    /\ UNCHANGED <<pushed, snapshot, target_syncs, requested, violation>>

(* The batches tried by train(): batch_size consecutive positions ending   *)
(* o places before the newest entry, wrapping round.                       *)
TrainPositions(len, n) ==
    {[k \in 1..n |-> ((len - n - o + k - 1) % len) + 1] : o \in 0..(MaxOffsets - 1)}

(* float(done) *)
FloatOfBool(b) == IF b THEN 1 ELSE 0

(* Mutation: the future term is kept for terminal transitions. *)
ExpectedQUnmasked(t, p) ==
    t.reward + (GammaNum * max(forward(p, t.next_state))) \div GammaDen

(* rewards + self.gamma * next_q_values * (1 - dones), per batch entry *)
ExpectedQ(t, p) ==
    t.reward +
      (GammaNum * max(forward(p, t.next_state)) * (1 - FloatOfBool(t.done))) \div GammaDen

(* DQNAgent.train is running: it has sampled and not yet returned. *)
InTrain == batch # <<>>

(* Mutation: the early return is taken one transition too early. *)
train_off_by_one ==
    /\ ~InTrain
    /\ last_call' = "train"
    /\ UNCHANGED agentVars
    /\ UNCHANGED <<sel_state, draw, predicted_action>>
    /\ UNCHANGED <<pushed, snapshot, target_syncs>>
    /\ IF Len(memory) < batch_size - 1
       THEN UNCHANGED <<batch, sample_idx, expected_q_values, requested, violation>>
       ELSE /\ requested' = batch_size
            /\ violation' = (violation \/ batch_size > Len(memory))
            /\ \E idx \in TrainPositions(Len(memory), batch_size) :
                  /\ sample_idx' = idx
                  /\ batch' = [k \in 1..batch_size |-> memory[idx[k]]]
                  /\ expected_q_values' =
                        [k \in 1..batch_size |->
                            ExpectedQ(memory[idx[k]], heap[target_net])]

(* DQNAgent.train, up to the targets: the early return, or the batch and   *)
(* its expected Q-values.                                                  *)
train ==
    /\ ~InTrain
    /\ last_call' = "train"
    /\ UNCHANGED agentVars
    /\ UNCHANGED <<sel_state, draw, predicted_action>>
    /\ UNCHANGED <<pushed, snapshot, target_syncs>>
    /\ IF Len(memory) < batch_size
       THEN UNCHANGED <<batch, sample_idx, expected_q_values, requested, violation>>
       ELSE /\ requested' = batch_size
            /\ violation' = (violation \/ batch_size > Len(memory))
            /\ \E idx \in TrainPositions(Len(memory), batch_size) :
                  /\ sample_idx' = idx
                  /\ batch' = [k \in 1..batch_size |-> memory[idx[k]]]
                  /\ expected_q_values' =
                        [k \in 1..batch_size |->
                            ExpectedQ(memory[idx[k]], heap[target_net])]

(* DQNAgent.train, the rest: the loss, one optimizer step on the cell the  *)
(* optimizer was built on, and the return, which ends the locals.          *)
train_step ==
    /\ InTrain
    /\ \E p \in ParamSettings :
          heap' = [heap EXCEPT ![optimizer.params] = p]
    /\ optimizer' = [optimizer EXCEPT !.step = @ + 1]
    /\ batch' = <<>>
    /\ sample_idx' = <<>>
    /\ expected_q_values' = <<>>
    /\ last_call' = "train_step"
    /\ UNCHANGED <<capacity, memory, policy_net, target_net, epsilon>>
    /\ UNCHANGED <<sel_state, draw, predicted_action>>
    /\ UNCHANGED <<pushed, snapshot, target_syncs, requested, violation>>

(* Mutation: the target is made to share the policy's storage. *)
update_target_network_alias ==
    /\ target_net' = policy_net
    /\ snapshot' = heap[policy_net]
    /\ target_syncs' = target_syncs + 1
    /\ last_call' = "update_target_network"
    /\ UNCHANGED <<capacity, memory, heap, policy_net, optimizer, epsilon>>
    /\ UNCHANGED localVars
    /\ UNCHANGED <<pushed, requested, violation>>

(* DQNAgent.update_target_network *)
update_target_network ==
    /\ heap' = [heap EXCEPT ![target_net] = heap[policy_net]]
    /\ snapshot' = heap[policy_net]
    /\ target_syncs' = target_syncs + 1
    /\ last_call' = "update_target_network"
    /\ UNCHANGED <<capacity, memory, policy_net, target_net, optimizer, epsilon>>
    /\ UNCHANGED localVars
    /\ UNCHANGED <<pushed, requested, violation>>

(* Mutation: no floor. *)
DecayedEpsilonUnclamped(eps) == (eps * EpsilonDecayNum) \div EpsilonDecayDen

(* max(self.epsilon_min, self.epsilon * self.epsilon_decay) *)
DecayedEpsilon(eps) ==
    Max(epsilon_min, (eps * EpsilonDecayNum) \div EpsilonDecayDen)

RECURSIVE DecayedEpsilonTimes(_)
DecayedEpsilonTimes(n) ==
    IF n = 0 THEN EpsilonOne ELSE DecayedEpsilon(DecayedEpsilonTimes(n - 1))

(* DQNAgent.update_epsilon *)
update_epsilon ==
    /\ epsilon' = DecayedEpsilon(epsilon)
    /\ last_call' = "update_epsilon"
    /\ UNCHANGED <<capacity, memory, heap, policy_net, target_net, optimizer>>
    /\ UNCHANGED localVars
    /\ UNCHANGED <<pushed, snapshot, target_syncs, requested, violation>>

---------------------------------------------------------------------------
(* A constructed agent under any sequence of select_action, train,         *)
(* update_target_network and update_epsilon calls.                         *)

InitCalls == AgentConstructed /\ DriverIdle

CallSelectAction ==
    /\ ~InTrain
    /\ \E r \in 0..(MaxSelectInputs - 1) : select_action(train_states(r))
    /\ UNCHANGED driverVars

CallTrain == train /\ UNCHANGED driverVars

CallTrainStep == train_step /\ UNCHANGED driverVars

CallUpdateTarget ==
    /\ ~InTrain
    /\ target_syncs < MaxSyncs
    /\ update_target_network
    /\ UNCHANGED driverVars

CallUpdateEpsilon == ~InTrain /\ update_epsilon /\ UNCHANGED driverVars

NextCalls == CallSelectAction \/ CallTrain \/ CallUpdateTarget \/ CallUpdateEpsilon

SpecCalls == InitCalls /\ [][NextCalls]_vars

---------------------------------------------------------------------------
(* A constructed agent whose caller also fills the memory, row by row.     *)

AgentPush ==
    /\ ~InTrain
    /\ Len(memory) < batch_size + MaxExtraPushes
    /\ push(Transition(Len(memory) % (NumRecords - 1)))
    /\ UNCHANGED pushed
    /\ UNCHANGED driverVars

AgentSelectAction == CallSelectAction

AgentTrain ==
    /\ Len(memory) >= batch_size => optimizer.step < MaxTrainSteps
    /\ train
    /\ UNCHANGED driverVars

AgentTrainStep == CallTrainStep

AgentUpdateTarget == CallUpdateTarget

AgentUpdateEpsilon ==
    /\ ~InTrain
    /\ epsilon > DecayedEpsilonTimes(MaxDecays)
    /\ update_epsilon
    /\ UNCHANGED driverVars

NextAgent ==
    \/ AgentPush
    \/ AgentSelectAction
    \/ AgentTrain
    \/ AgentTrainStep
    \/ AgentUpdateTarget
    \/ AgentUpdateEpsilon

SpecAgent == InitCalls /\ [][NextAgent]_vars

---------------------------------------------------------------------------
(* The training loop over the dataset.  The metric accumulators          *)
(* (total_reward, correct_predictions and the three lists) are written    *)
(* and never read back by the loop or the agent; they are not state here.  *)
(* LoopCompare is the step at which predicted_action is compared with the  *)
(* recorded action.                                                        *)

InitDriver ==
    /\ AgentConstructed
    /\ pc = "begin"
    /\ episode = 0
    /\ i = 0

AgentUntouched == UNCHANGED <<agentVars, localVars, ghostVars>>

(* for episode in range(num_episodes): total_reward = 0; ... *)
LoopBegin ==
    /\ pc = "begin"
    /\ i' = 0
    /\ pc' = IF NumRecords - 1 > 0 THEN "push" ELSE "decay"
    /\ UNCHANGED episode
    /\ AgentUntouched

(* agent.memory.push(state, action, reward, next_state, done) *)
LoopPush ==
    /\ pc = "push"
    /\ push(Transition(i))
    /\ UNCHANGED pushed
    /\ pc' = "train"
    /\ UNCHANGED <<episode, i>>

(* Mutation: train() is called for every record. *)
LoopTrainUnguarded ==
    /\ pc = "train"
    /\ train
    /\ pc' = IF batch' # <<>> THEN "optimize" ELSE "select"
    /\ UNCHANGED <<episode, i>>

(* if len(agent.memory) >= agent.batch_size: agent.train() *)
LoopTrain ==
    /\ pc = "train"
    /\ IF Len(memory) >= batch_size THEN train ELSE AgentUntouched
    /\ pc' = IF batch' # <<>> THEN "optimize" ELSE "select"
    /\ UNCHANGED <<episode, i>>

(* agent.train() runs on to its return *)
LoopOptimize ==
    /\ pc = "optimize"
    /\ train_step
    /\ pc' = "select"
    /\ UNCHANGED <<episode, i>>

(* predicted_action = agent.select_action(state) *)
LoopSelect ==
    /\ pc = "select"
    /\ select_action(train_states(i))
    /\ pc' = "compare"
    /\ UNCHANGED <<episode, i>>

(* if predicted_action == action: ...; then the next i *)
LoopCompare ==
    /\ pc = "compare"
    /\ IF i + 1 < NumRecords - 1
       THEN i' = i + 1 /\ pc' = "push"
       ELSE i' = i /\ pc' = "decay"
    /\ UNCHANGED episode
    /\ AgentUntouched

(* agent.update_epsilon() *)
LoopDecay ==
    /\ pc = "decay"
    /\ update_epsilon
    /\ pc' = "sync"
    /\ UNCHANGED <<episode, i>>

(* Mutation: the target is synced after every pass. *)
LoopSyncEveryPass ==
    /\ pc = "sync"
    /\ update_target_network
    /\ pc' = "metrics"
    /\ UNCHANGED <<episode, i>>

(* if episode % 10 == 0: agent.update_target_network() *)
LoopSync ==
    /\ pc = "sync"
    /\ IF episode % TargetInterval = 0 THEN update_target_network ELSE AgentUntouched
    /\ pc' = "metrics"
    /\ UNCHANGED <<episode, i>>

(* metrics are appended and printed; the next pass starts *)
LoopMetrics ==
    /\ pc = "metrics"
    /\ IF episode + 1 < num_episodes
       THEN episode' = episode + 1 /\ pc' = "begin"
       ELSE episode' = episode /\ pc' = "done"
    /\ UNCHANGED i
    /\ AgentUntouched

Next ==
    \/ LoopBegin
    \/ LoopPush
    \/ LoopTrain
    \/ LoopOptimize
    \/ LoopSelect
    \/ LoopCompare
    \/ LoopDecay
    \/ LoopSync
    \/ LoopMetrics

Spec == InitDriver /\ [][Next]_vars

---------------------------------------------------------------------------
(* select_action on an agent whose epsilon attribute has been set by hand. *)

EpsilonInputs == {0, epsilon_min, EpsilonOne}

InitSelect ==
    /\ capacity = BufferCapacity
    /\ memory = <<>>
    /\ policy_net = 1
    /\ target_net = 2
    /\ \E p \in ParamSettings : heap = [c \in Cells |-> p]
    /\ optimizer = [params |-> policy_net, step |-> 0]
    /\ epsilon \in EpsilonInputs
    /\ LocalsInit
    /\ pushed = <<>>
    /\ snapshot = heap[policy_net]
    /\ last_call = "init"
    /\ target_syncs = 0
    /\ requested = 0
    /\ violation = FALSE
    /\ DriverIdle

SelectAnyRow ==
    /\ \E r \in 0..(NumRecords - 1) : select_action(train_states(r))
    /\ UNCHANGED driverVars

NextSelect == SelectAnyRow

SpecSelect == InitSelect /\ [][NextSelect]_vars

---------------------------------------------------------------------------
(* Properties *)

LastN(s, n) == SubSeq(s, Len(s) - n + 1, Len(s))

(* The largest Q-value of q, stated without recursion. *)
Largest(q) == CHOOSE m \in {q[a] : a \in DOMAIN q} : \A a \in DOMAIN q : q[a] <= m

(* C1: after N pushes a buffer of capacity C holds exactly the last        *)
(* min(N, C) pushed transitions, in push order; so its length never        *)
(* exceeds its capacity and the oldest entries are the ones evicted.       *)
BufferHoldsLastPushed ==
    /\ Len(memory) <= capacity
    /\ memory = LastN(pushed, Min(Len(pushed), capacity))

BufferHasEvicted ==
    /\ capacity >= 2
    /\ Len(pushed) > capacity
    /\ Len(memory) = capacity
    /\ pushed[1] # pushed[Len(pushed)]

(* C2: sample(n) with n <= len returns n entries taken from n pairwise     *)
(* distinct positions of the buffer, and leaves the buffer's contents and  *)
(* order as they were.                                                     *)
SampleDistinctAndCopied ==
    /\ [](last_call = "sample" =>
            /\ Len(batch) = requested
            /\ DOMAIN sample_idx = 1..requested
            /\ \A k \in 1..requested : sample_idx[k] \in 1..Len(memory)
            /\ \A j, k \in 1..requested : j # k => sample_idx[j] # sample_idx[k]
            /\ \A k \in 1..requested : batch[k] = memory[sample_idx[k]])
    /\ [][last_call' = "sample" => memory' = memory /\ capacity' = capacity]_vars

SampledSeveral ==
    /\ last_call = "sample"
    /\ requested >= 2
    /\ Len(memory) >= 2
    /\ memory[1] = memory[2]

(* C3: epsilon stays within [epsilon_min, 1.0]; update_epsilon never       *)
(* raises it, and no other agent operation changes it.                     *)
EpsilonBoundedMonotone ==
    /\ [](epsilon_min <= epsilon /\ epsilon <= EpsilonOne)
    /\ [][/\ last_call' = "update_epsilon" => epsilon' <= epsilon
          /\ last_call' # "update_epsilon" => epsilon' = epsilon]_vars

EpsilonAtFloor ==
    /\ last_call = "update_epsilon"
    /\ epsilon = epsilon_min

(* C4: the target network's parameters are the policy's as they were at    *)
(* construction or at the last update_target_network call; right after     *)
(* that call the two are equal; train never changes the target's.          *)
TargetIsSnapshot ==
    /\ [](/\ heap[target_net] = snapshot
          /\ last_call = "update_target_network" =>
                heap[target_net] = heap[policy_net])
    /\ [][last_call' \in {"train", "train_step"} =>
            heap'[target_net'] = heap[target_net]]_vars

TargetLagsPolicy ==
    /\ target_syncs >= 1
    /\ last_call = "train_step"
    /\ heap[policy_net] # heap[target_net]

(* C5: with fewer than batch_size transitions stored, train returns        *)
(* without sampling and changes no parameter, optimizer state, memory or   *)
(* epsilon; with at least batch_size it samples one batch of batch_size    *)
(* and makes exactly one optimizer step, on the policy network.            *)
TrainNoOpOrOneStep ==
    [][/\ (last_call' = "train" /\ Len(memory) < batch_size) =>
             /\ UNCHANGED <<heap, policy_net, target_net, optimizer>>
             /\ UNCHANGED <<capacity, memory, epsilon>>
             /\ UNCHANGED <<batch, sample_idx, requested>>
             /\ ~InTrain'
       /\ (last_call' = "train" /\ Len(memory) >= batch_size) =>
             /\ InTrain'
             /\ Len(batch') = batch_size
             /\ requested' = batch_size
             /\ UNCHANGED <<heap, optimizer, memory, epsilon>>
       /\ last_call' = "train_step" =>
             /\ InTrain
             /\ ~InTrain'
             /\ optimizer'.step = optimizer.step + 1
             /\ optimizer.params = policy_net
             /\ heap'[target_net] = heap[target_net]
             /\ UNCHANGED <<memory, epsilon>>]_vars

TrainReturnedEarly ==
    /\ last_call = "train"
    /\ Len(memory) = batch_size - 1
    /\ optimizer.step = 0

(* C6: over the whole run the target network is synced exactly once, and   *)
(* that sync comes before any learning step.                               *)
SyncOnceBeforeLearning ==
    /\ [](target_syncs <= 1 /\ (pc = "done" => target_syncs = 1))
    /\ [][target_syncs' > target_syncs => optimizer.step = 0]_vars

(* C6, amended: over the whole run the target network is synced exactly    *)
(* once, at the end of the first pass: after all of that pass's pushes and *)
(* learning steps and after its epsilon decay.                             *)
SyncOnceAfterFirstPass ==
    /\ [](target_syncs <= 1 /\ (pc = "done" => target_syncs = 1))
    /\ [][target_syncs' > target_syncs =>
            /\ episode = 0
            /\ i = NumRecords - 2
            /\ Len(memory) = NumRecords - 1
            /\ optimizer.step = Max(0, NumRecords - batch_size)
            /\ epsilon = DecayedEpsilon(EpsilonOne)]_vars

SyncedAfterLearning ==
    /\ last_call = "update_target_network"
    /\ episode = 0
    /\ target_syncs = 1
    /\ optimizer.step > 0

(* C7: in train, the expected Q-value of a terminal transition is its      *)
(* reward, whatever gamma and the target network say; of a non-terminal    *)
(* one it is reward + gamma * the largest target Q-value of next_state.    *)
TerminalTargetIsReward ==
    InTrain =>
        \A k \in 1..Len(batch) :
            LET q == forward(heap[target_net], batch[k].next_state)
            IN  /\ batch[k].done => expected_q_values[k] = batch[k].reward
                /\ ~batch[k].done =>
                      expected_q_values[k] =
                         batch[k].reward + (GammaNum * Largest(q)) \div GammaDen

TerminalInBatch ==
    /\ InTrain
    /\ \E k \in 1..Len(batch) :
          /\ batch[k].done
          /\ batch[k].reward = 100
          /\ Largest(forward(heap[target_net], batch[k].next_state)) # 0

(* C8: with epsilon = 0, select_action returns the first index of the      *)
(* largest policy Q-value of its argument, so its result is a function of  *)
(* the state and the policy parameters.                                    *)
GreedyWhenEpsilonZero ==
    (epsilon = 0 /\ last_call = "select_action") =>
        LET q == forward(heap[policy_net], sel_state)
        IN  /\ predicted_action \in 0..(OutputDim - 1)
            /\ \A a \in 1..OutputDim : q[a] <= q[predicted_action + 1]
            /\ \A a \in 1..predicted_action : q[a] < q[predicted_action + 1]

GreedyOnTie ==
    /\ epsilon = 0
    /\ last_call = "select_action"
    /\ draw = 0
    /\ \E r \in 0..(NumRecords - 1) :
          /\ sel_state = train_states(r)
          /\ forward(heap[policy_net], sel_state)[1] =
                forward(heap[policy_net], sel_state)[2]
          /\ heap[policy_net] # ParamSetting(0)

(* C9: the loop pushes a record's transition before it calls train, calls  *)
(* train only with at least batch_size transitions stored, and sample is   *)
(* never asked for more than is stored.                                    *)
TrainOnlyWhenFilled ==
    /\ violation = FALSE
    /\ requested <= Len(memory)
    /\ pc = "train" =>
          /\ last_call = "push"
          /\ Len(memory) > 0
          /\ memory[Len(memory)] = Transition(i)
    /\ last_call = "train" => Len(memory) >= batch_size

FirstTrainCall ==
    /\ last_call = "train"
    /\ Len(memory) = batch_size
    /\ requested = batch_size
    /\ episode = 0

(* C10: the action compared with the recorded action at each step is the   *)
(* greedy action of the policy network, whatever epsilon is.               *)
ComparesGreedyAction ==
    pc = "compare" =>
        predicted_action = argmax(forward(heap[policy_net], train_states(i)))

====
